---- MODULE Spec2Model ----
(***************************************************************************)
(* A model of fontFeatures' lowering of routines to feaLib statements:     *)
(*   feaLib/Routine.py   the partitioning of a routine (arrange and its    *)
(*                       four passes) and its serialisation (asFeaAST);    *)
(*   feaLib/Chaining.py  the lowering of a chaining rule (feaPreamble,     *)
(*                       asFeaAST, _complex) against the session scratch.  *)
(* Python values are modelled as records; None is the string None below,   *)
(* an exception is the name of its class in a field err ("" = no error).   *)
(***************************************************************************)
EXTENDS Integers, Sequences, FiniteSets, TLC

VARIABLES
  routine,   \* Routine.py: the routine an operation is applied to (self)
  ret,       \* Routine.py: the operation applied last, and what it returned
  crule,     \* Chaining.py: the chaining rule being lowered (self)
  handed,    \* the rule as it was handed over
  session,   \* the session: ff.scratch and ff.namedClasses
  log,       \* the operations applied to the rule, with what each returned
  oracle,    \* compatibleRules, as a function of the two routines' names
  calls,     \* how often compatibleRules was invoked, per pair of names
  renamed,   \* the (glyph class, class name) replacements of the session
  loaded     \* how many rules the session was handed

routineVars == <<routine, ret>>
chainVars == <<crule, handed, session, log, oracle, calls, renamed, loaded>>
vars == <<routine, ret, crule, handed, session, log, oracle, calls, renamed, loaded>>

\* ------------------------------------------------------------------ bounds
\* The longest rule list of an input routine.
MaxRules == 2
\* The most positions of a chaining rule's lookups.
MaxPositions == 2
\* The longest precontext, input and postcontext where glyph classes vary.
MaxContext == 1
\* The most chaining rules handed to one session.
MaxSessionRules == 2
\* The most operations applied to one chaining rule.
MaxOps == 3

\* ------------------------------------------------------- Python's values
\* Python's None, where a string or an object is expected.
None == "<None>"
\* A routine without a flags attribute (hasattr(self, "flags") is False).
NoFlags == -1

\* `if x:` on a string-or-None.
Truthy(s) == s /= None /\ s /= ""

\* ---------------------------------------------------------------- rules
\* The four rule variants. shape is what the external subtype inference
\* looks at; is_cursive is Attachment's flag; lookups is Chaining's list.
Substitution == "Substitution"
Positioning  == "Positioning"
Attachment   == "Attachment"
Chaining     == "Chaining"

MkRule(type, shape, cursive, flags) ==
  [type |-> type, shape |-> shape, is_cursive |-> cursive, flags |-> flags,
   lookups |-> <<>>]

\* lookup flags met in the inputs (0 = none, 8 = IgnoreMarks).
FlagValues == {0, 8}

RuleInputs ==
  { MkRule(Substitution, s, FALSE, f) : s \in {"single", "multiple", "ligature"}, f \in FlagValues }
  \cup { MkRule(Positioning, s, FALSE, f) : s \in {"single", "pair"}, f \in FlagValues }
  \cup { MkRule(Attachment, "", c, f) : c \in BOOLEAN, f \in FlagValues }
  \cup { MkRule(Chaining, "", FALSE, f) : f \in FlagValues }

\* fontFeatures.ttLib.Substitution.lookup_type: the GSUB lookup type of a
\* substitution's shape (single, multiple, alternate, ligature).
sub_lookup_type(rule) ==
  CASE rule.shape = "single"    -> 1
    [] rule.shape = "multiple"  -> 2
    [] rule.shape = "alternate" -> 3
    [] OTHER                    -> 4

\* fontFeatures.ttLib.Positioning.lookup_type: the GPOS lookup type of a
\* positioning's shape (single, pair).
pos_lookup_type(rule) ==
  CASE rule.shape = "single" -> 1
    [] OTHER                 -> 2

\* A dict key as Python sees it: key is what hashing and == compare (True is
\* 1, False is 0), repr is str() of the object that was inserted first.
IntKey(n)  == [key |-> n, repr |-> ToString(n)]
BoolKey(b) == [key |-> IF b THEN 1 ELSE 0, repr |-> IF b THEN "True" ELSE "False"]

\* lookup_type raises ValueError for a rule of no known variant.
lookup_type_raises(rule) ==
  rule.type \notin {Substitution, Positioning, Attachment, Chaining}

lookup_type(rule) ==
  CASE rule.type = Substitution -> IntKey(sub_lookup_type(rule))
    [] rule.type = Positioning  -> IntKey(pos_lookup_type(rule))
    [] rule.type = Attachment   -> BoolKey(rule.is_cursive)
    [] OTHER                    -> IntKey(1)

\* -------------------------------------------------------------- routines
\* Routine(rules=..., flags=..., languages=...): what the constructor
\* leaves unset is None (name), absent (flags) or empty.
Routine(rules, flags, languages) ==
  [name |-> None, rules |-> rules, flags |-> flags,
   languages |-> languages, comments |-> <<>>]

\* An insertion-ordered dict of lists: d[k].append(v), creating d[k] = []
\* at the first sight of k.
DictAppend(d, k, v) ==
  IF \E i \in DOMAIN d : d[i].key = k.key
  THEN [i \in DOMAIN d |->
          IF d[i].key = k.key THEN [d[i] EXCEPT !.val = Append(@, v)] ELSE d[i]]
  ELSE Append(d, [key |-> k.key, repr |-> k.repr, val |-> <<v>>])

\* d[k].extend(vs)
DictExtend(d, k, vs) ==
  IF \E i \in DOMAIN d : d[i].key = k.key
  THEN [i \in DOMAIN d |->
          IF d[i].key = k.key THEN [d[i] EXCEPT !.val = @ \o vs] ELSE d[i]]
  ELSE Append(d, [key |-> k.key, repr |-> k.repr, val |-> vs])

Keys(d) == [i \in DOMAIN d |-> d[i].key]

\* What an arrange pass hands back: ret is "None" (no split) or "list";
\* self is the routine after the pass.
NoSplit(self)      == [err |-> "", ret |-> "None", children |-> <<>>, self |-> self]
Split(self, kids)  == [err |-> "", ret |-> "list", children |-> kids, self |-> self]
Raise(self, what)  == [err |-> what, ret |-> "raise", children |-> <<>>, self |-> self]

\* `if splitType:` an empty list is as false as None.
Falsy(r) == r.ret = "None" \/ (r.ret = "list" /\ r.children = <<>>)

\* ---- arrange_by_type
RECURSIVE TypeBuckets(_, _)
TypeBuckets(d, rules) ==
  IF rules = <<>> THEN d
  ELSE TypeBuckets(DictAppend(d, [key |-> Head(rules).type, repr |-> Head(rules).type],
                              Head(rules)),
                   Tail(rules))

arrange_by_type(self) ==
  LET ruleTypes == TypeBuckets(<<>>, self.rules) IN
  IF Len(ruleTypes) = 1 THEN NoSplit(self)
  \* each r is built and dropped; naming it adds a class to a string
  ELSE IF Len(ruleTypes) > 0 /\ Truthy(self.name) THEN Raise(self, "TypeError")
  ELSE Split(self, <<>>)

\* ---- arrange_by_lookup_type
RECURSIVE LookupTypeBuckets(_, _)
LookupTypeBuckets(d, rules) ==
  IF rules = <<>> THEN d
  ELSE LookupTypeBuckets(DictAppend(d, lookup_type(Head(rules)), Head(rules)),
                         Tail(rules))

Named(self, child, suffix) ==
  IF Truthy(self.name) THEN [child EXCEPT !.name = self.name \o "_" \o suffix]
  ELSE child

arrange_by_lookup_type(self) ==
  IF \E i \in DOMAIN self.rules : lookup_type_raises(self.rules[i])
  THEN Raise(self, "ValueError")
  ELSE
  LET ruleTypes == LookupTypeBuckets(<<>>, self.rules) IN
  IF Len(ruleTypes) = 1 THEN NoSplit(self)
  ELSE IF Keys(ruleTypes) = <<1, 2>> THEN NoSplit(self)
  ELSE Split(self, [i \in DOMAIN ruleTypes |->
                      Named(self, Routine(ruleTypes[i].val, NoFlags, <<>>),
                            ruleTypes[i].repr)])

\* ---- arrange_by_flags
RECURSIVE FlagBuckets(_, _)
FlagBuckets(d, rules) ==
  IF rules = <<>> THEN d
  ELSE FlagBuckets(DictAppend(d, IntKey(Head(rules).flags), Head(rules)), Tail(rules))

\* arrange_by_flags without line 54: no split, and flags left as they were.
arrange_by_flags_keeps_flags(self) ==
  LET flagTypes == FlagBuckets(<<>>, self.rules) IN
  IF Len(flagTypes) = 1 THEN NoSplit(self)
  ELSE Split(self, [i \in DOMAIN flagTypes |->
                      [Routine(flagTypes[i].val, flagTypes[i].key, <<>>)
                         EXCEPT !.name = IF Truthy(self.name)
                                         THEN self.name \o "_" \o flagTypes[i].repr
                                         ELSE None]])

arrange_by_flags(self) ==
  LET flagTypes == FlagBuckets(<<>>, self.rules) IN
  IF Len(flagTypes) = 1 THEN NoSplit([self EXCEPT !.flags = flagTypes[1].key])
  ELSE Split(self, [i \in DOMAIN flagTypes |->
                      Named(self, Routine(flagTypes[i].val, flagTypes[i].key, <<>>),
                            flagTypes[i].repr)])

\* ---- arrange_by_language
\* A (script, language) pair is <<s, l>>; as a dict key it is itself.
PairKey(p) == [key |-> p, repr |-> p[1] \o "_" \o p[2]]

RECURSIVE LanguageBuckets(_, _, _)
LanguageBuckets(d, langs, rules) ==
  IF langs = <<>> THEN d
  ELSE LET s == Head(langs)[1]
           l == Head(langs)[2]
           p == IF l = "*" THEN <<s, "dflt">> ELSE <<s, l>>
       IN LanguageBuckets(DictExtend(d, PairKey(p), rules), Tail(langs), rules)

arrange_by_language(self) ==
  IF self.languages = <<>> THEN NoSplit(self)
  ELSE
  LET languages == LanguageBuckets(<<>>, self.languages, self.rules) IN
  IF Len(languages) < 2 THEN NoSplit(self)
  ELSE Split(self, [i \in DOMAIN languages |->
                      Named(self, Routine(languages[i].val, NoFlags, <<languages[i].key>>),
                            languages[i].repr)])

\* ---- arrange: the four passes in order, the first split wins
arrange(self) ==
  LET t == arrange_by_type(self) IN
  IF t.err /= "" \/ ~Falsy(t) THEN t ELSE
  LET k == arrange_by_lookup_type(self) IN
  IF k.err /= "" \/ ~Falsy(k) THEN k ELSE
  LET l == arrange_by_language(self) IN
  IF l.err /= "" \/ ~Falsy(l) THEN l ELSE
  LET f == arrange_by_flags(self) IN
  IF f.err /= "" \/ ~Falsy(f) THEN f ELSE
  NoSplit(f.self)

\* ---- asFeaAST (Routine)
\* "%4s" % l: the tag right-justified in four columns.
Pad4(l) ==
  CASE Len(l) >= 4 -> l
    [] Len(l) = 3  -> " " \o l
    [] Len(l) = 2  -> "  " \o l
    [] Len(l) = 1  -> "   " \o l
    [] OTHER       -> "    "

Stmt(kind, arg) == [kind |-> kind, arg |-> arg]

\* The declarators a leaf starts with (lines 113-121).
LanguageStatements(self) ==
  IF self.languages /= <<>>
     /\ ~(self.languages[1][1] = "DFLT" /\ self.languages[1][2] = "dflt")
  THEN <<Stmt("ScriptStatement", self.languages[1][1])>>
       \o (IF self.languages[1][2] /= "*"
           THEN <<Stmt("LanguageStatement", Pad4(self.languages[1][2]))>>
           ELSE <<>>)
  ELSE <<>>

FlagStatements(self) ==
  IF self.flags /= NoFlags /\ self.flags > 0
  THEN <<Stmt("LookupFlagStatement", ToString(self.flags))>>
  ELSE <<>>

\* x.asFeaAST() of a rule, as the statement of that rule.
RuleStatements(self) ==
  [i \in DOMAIN self.rules |-> [kind |-> "Rule", arg |-> "", rule |-> self.rules[i]]]

BlockOf(self, statements) ==
  [kind |-> IF Truthy(self.name) THEN "LookupBlock" ELSE "Block",
   name |-> self.name, statements |-> statements]

\* What asFeaAST hands back: the block, and the routines it serialised
\* directly (leaves), each as it was when its statements were written.
Lowered(block, leaves) == [err |-> "", block |-> block, leaves |-> leaves]
Failed(what)           == [err |-> what, block |-> BlockOf(Routine(<<>>, NoFlags, <<>>), <<>>),
                           leaves |-> <<>>]

RECURSIVE asFeaAST(_)
RECURSIVE asFeaASTEach(_, _, _)
\* for a in arranged: f.statements.append(asFeaAST(a))
asFeaASTEach(kids, statements, leaves) ==
  IF kids = <<>> THEN Lowered(statements, leaves)
  ELSE LET one == asFeaAST(Head(kids)) IN
       IF one.err /= "" THEN one
       ELSE asFeaASTEach(Tail(kids), Append(statements, one.block), leaves \o one.leaves)

asFeaAST(self) ==
  LET arranged == arrange(self) IN
  IF arranged.err /= "" THEN Failed(arranged.err)
  ELSE IF ~Falsy(arranged)
  THEN LET all == asFeaASTEach(arranged.children, <<>>, <<>>) IN
       IF all.err /= "" THEN all
       ELSE Lowered(BlockOf(self, all.block), all.leaves)
  ELSE LET me == arranged.self IN
       \* Comment is no name of the module: the first comment raises
       IF me.comments /= <<>> THEN Failed("NameError")
       ELSE Lowered(BlockOf(me, LanguageStatements(me) \o FlagStatements(me)
                                  \o RuleStatements(me)),
                    <<me>>)

\* ================================================================ Chaining
\* The inline size threshold of a glyph class (len(gc) > 5).
InlineMax == 5

\* The glyph names of the inputs, in sorted() order.
Glyphs == <<"a", "b", "c", "d", "e", "f", "g">>
Rank(g) == CHOOSE i \in DOMAIN Glyphs : Glyphs[i] = g

\* sorted(gc): by insertion.
RECURSIVE Insert(_, _)
Insert(sortedSeq, g) ==
  IF sortedSeq = <<>> THEN <<g>>
  ELSE IF Rank(g) < Rank(Head(sortedSeq)) THEN <<g>> \o sortedSeq
  ELSE <<Head(sortedSeq)>> \o Insert(Tail(sortedSeq), g)

RECURSIVE sorted(_)
sorted(gc) == IF gc = <<>> THEN <<>> ELSE Insert(sorted(Tail(gc)), Head(gc))

\* d[k] = v on a dict without order.
Put(d, k, v) == [j \in DOMAIN d \cup {k} |-> IF j = k THEN v ELSE d[j]]

\* glyphref(g)
glyphref(g) ==
  IF Len(g) = 1 THEN [kind |-> "GlyphName", glyphs |-> <<g[1]>>]
  ELSE [kind |-> "GlyphClass", glyphs |-> g]

\* ---- a position of self.lookups: None, or a list of routines; the list
\* [None] is what asFeaAST leaves at a position without routines.
NoneEntry     == [kind |-> "None", groups |-> <<>>]
ListEntry(gs) == [kind |-> "list", groups |-> gs]
ListOfNone    == [kind |-> "[None]", groups |-> <<>>]

\* `not lookuplist`
Not(entry) == entry.kind = "None" \/ (entry.kind = "list" /\ entry.groups = <<>>)
\* len(lookuplist), of a list
Length(entry) == IF entry.kind = "[None]" THEN 1 ELSE Len(entry.groups)

\* ---- suborpos
\* The rules of the routines of the positions, in the order of the loops of
\* lines 13-17 (a None position, an empty list and a None routine add none).
RECURSIVE RulesInOrder(_)
RulesInOrder(lookups) ==
  IF lookups = <<>> THEN <<>>
  ELSE LET l == Head(lookups)
           RECURSIVE Of(_)
           Of(gs) == IF gs = <<>> THEN <<>> ELSE Head(gs).rules \o Of(Tail(gs))
       IN (IF Not(l) THEN <<>> ELSE Of(l.groups)) \o RulesInOrder(Tail(lookups))

RECURSIVE suborpos(_)
RECURSIVE FirstDecisive(_)
\* The first rule of a known variant returns; a Chaining rule returns what
\* its own lookups give, None included.
FirstDecisive(rules) ==
  IF rules = <<>> THEN None
  ELSE LET r == Head(rules) IN
       CASE r.type = Substitution -> "sub"
         [] r.type = Positioning  -> "pos"
         [] r.type = Attachment   -> "pos"
         [] r.type = Chaining     -> suborpos(r.lookups)
         [] OTHER                 -> FirstDecisive(Tail(rules))

suborpos(lookups) == FirstDecisive(RulesInOrder(lookups))

\* ---- gensym and replaceLongWithClasses
\* ff is [index, glyphclasses, synthesised_lookups] (ff.scratch; a key not
\* yet in scratch is 0, or the empty dict) and namedClasses.
NewFF == [index |-> 0, glyphclasses |-> <<>>, synthesised_lookups |-> <<>>,
          namedClasses |-> <<>>]

gensym(ff) ==
  [ff |-> [ff EXCEPT !.index = @ + 1], sym |-> ToString(ff.index + 1)]

\* The cache key of a glyph class.
ClassKey(gc) == sorted(gc)

\* acc is [i, ff, replaced]: the list being rewritten, the session, and
\* the (class, name) replacements made.
RECURSIVE replaceLongWithClasses(_, _)
replaceLongWithClasses(ix, acc) ==
  IF ix > Len(acc.i) THEN acc
  ELSE LET gc == acc.i[ix] IN
       IF Len(gc) > InlineMax
       THEN IF ClassKey(gc) \notin DOMAIN acc.ff.glyphclasses
            THEN LET g == gensym(acc.ff)
                     classname == "class" \o g.sym
                 IN replaceLongWithClasses(ix + 1,
                      [i |-> [acc.i EXCEPT ![ix] = <<"@" \o classname>>],
                       ff |-> [g.ff EXCEPT
                                 !.namedClasses = Put(@, classname, gc),
                                 !.glyphclasses = Put(@, ClassKey(gc), classname)],
                       replaced |-> acc.replaced \cup {<<gc, classname>>}])
            ELSE LET classname == acc.ff.glyphclasses[ClassKey(gc)]
                 IN replaceLongWithClasses(ix + 1,
                      [acc EXCEPT !.i[ix] = <<"@" \o classname>>,
                                  !.replaced = @ \cup {<<gc, classname>>}])
       ELSE replaceLongWithClasses(ix + 1, acc)

\* ---- feaPreamble (Chaining)
\* Optimizer().optimize_routine(synthesised): taken to keep the rules.
optimize_routine(r) == r

\* CachedAs without lines 62-63: the cache is looked up under the order of
\* the position alone.
CachedAs_one_order(cache, synthname, synthname2) ==
  IF synthname \in DOMAIN cache THEN synthname ELSE None

\* Which key of the cache holds the pair, None when neither does
\* (lines 60-63).
CachedAs(cache, synthname, synthname2) ==
  IF synthname \in DOMAIN cache THEN synthname
  ELSE IF synthname2 \in DOMAIN cache THEN synthname2
  ELSE None

\* Lines 67-75 for the two routines of a position: the routine synthesised
\* (as asFeaAST leaves it: it sets the flags of a routine it serialises
\* directly), the statement of its block, and the exception, if any.
SynthesisedOf(made, arranged, low) ==
  [routine |-> IF arranged.err = "" /\ Falsy(arranged) THEN arranged.self ELSE made,
   err |-> low.err,
   kind |-> low.block.kind,
   name |-> low.block.name]

Synthesise(l0, l1, synthname) ==
  LET made == optimize_routine(
                [Routine(l0.rules \o l1.rules, NoFlags, <<>>) EXCEPT !.name = synthname])
  IN SynthesisedOf(made, arrange(made), asFeaAST(made))

\* acc is [lookups, ff, rv, asked, hits, err]: the rule's lookups, the
\* session, the statements to return, the pairs compatibleRules was asked
\* about, the cache keys that were hit, and the exception, if any.
Hit(acc, ix, cached, key) ==
  [acc EXCEPT !.lookups[ix] = ListEntry(<<cached>>), !.hits = Append(@, key)]

Ask(acc, l0, l1) == [acc EXCEPT !.asked = Append(@, <<l0.name, l1.name>>)]

Merge(acc, ix, synthname, s) ==
  [acc EXCEPT !.lookups[ix] = ListEntry(<<s.routine>>),
              !.ff.synthesised_lookups = Put(@, synthname, s.routine),
              !.err = s.err,
              !.rv = IF s.err = ""
                     THEN Append(@, [kind |-> s.kind, name |-> s.name,
                                     routine |-> s.routine])
                     ELSE @]

\* Two named routines at a position: the case lines 58-75 can finish.
NamedPair(lookuplist) ==
  /\ ~Not(lookuplist)
  /\ Length(lookuplist) = 2
  /\ lookuplist.groups[1].name /= None
  /\ lookuplist.groups[2].name /= None

\* What lines 67-75 make of each position holding two named routines (it
\* depends on the two routines alone), for the loop to pick from.
Synthesised(lookups) ==
  [ix \in DOMAIN lookups |->
     IF NamedPair(lookups[ix])
     THEN Synthesise(lookups[ix].groups[1], lookups[ix].groups[2],
                     lookups[ix].groups[1].name \o "_" \o lookups[ix].groups[2].name)
     ELSE [routine |-> Routine(<<>>, NoFlags, <<>>), err |-> "", kind |-> "", name |-> ""]]

\* One position of the loop of lines 54-75; compatible is the oracle
\* (MergeNonOverlappingRoutines().compatibleRules), on pairs of names.
PreambleAt(ix, acc, l0, l1, hit, compatible, synth) ==
  IF hit /= None THEN Hit(acc, ix, acc.ff.synthesised_lookups[hit], hit)
  ELSE IF ~compatible[{l0.name, l1.name}] THEN Ask(acc, l0, l1)
  ELSE Merge(Ask(acc, l0, l1), ix, l0.name \o "_" \o l1.name, synth[ix])

PreamblePosition(ix, acc, lookuplist, compatible, synth) ==
  IF Not(lookuplist) \/ Length(lookuplist) /= 2 THEN acc
  ELSE IF lookuplist.groups[1].name = None \/ lookuplist.groups[2].name = None
  THEN [acc EXCEPT !.err = "TypeError"]
  ELSE PreambleAt(ix, acc, lookuplist.groups[1], lookuplist.groups[2],
                  CachedAs(acc.ff.synthesised_lookups,
                           lookuplist.groups[1].name \o "_" \o lookuplist.groups[2].name,
                           lookuplist.groups[2].name \o "_" \o lookuplist.groups[1].name),
                  compatible, synth)

RECURSIVE PreambleLookups(_, _, _, _)
PreambleLookups(ix, acc, compatible, synth) ==
  IF acc.err /= "" \/ ix > Len(acc.lookups) THEN acc
  ELSE PreambleLookups(ix + 1,
                       PreamblePosition(ix, acc, acc.lookups[ix], compatible, synth),
                       compatible, synth)

\* feaPreamble(self, ff): [self, ff, rv, asked, hits, replaced, err]
\* Lines 54-77, the three lists rewritten: pst carries the session so far.
PreambleOf(self, i, pre, pst, lk) ==
  [self |-> [input |-> i.i, precontext |-> pre.i, postcontext |-> pst.i,
             lookups |-> lk.lookups],
   ff |-> lk.ff, rv |-> lk.rv, asked |-> lk.asked, hits |-> lk.hits,
   replaced |-> pst.replaced, err |-> lk.err]

feaPreamble(self, ff, compatible) ==
  LET i   == replaceLongWithClasses(1, [i |-> self.input, ff |-> ff, replaced |-> {}])
      pre == replaceLongWithClasses(1, [i |-> self.precontext, ff |-> i.ff,
                                        replaced |-> i.replaced])
      pst == replaceLongWithClasses(1, [i |-> self.postcontext, ff |-> pre.ff,
                                        replaced |-> pre.replaced])
  IN PreambleOf(self, i, pre, pst,
                PreambleLookups(1, [lookups |-> self.lookups, ff |-> pst.ff, rv |-> <<>>,
                                    asked |-> <<>>, hits |-> <<>>, err |-> ""],
                                compatible, Synthesised(self.lookups)))

\* ---- asFeaAST (Chaining) and _complex
Refs(seq) == [i \in DOMAIN seq |-> glyphref(seq[i])]

\* _complex, EXPERIMENTAL_FONTTOOLS being False: one warning, the lookups
\* emptied, then the names of each position's routines are collected, and
\* a None position cannot be iterated.
complex(self) ==
  [self |-> [self EXCEPT !.lookups = <<>>],
   warnings |-> 1,
   err |-> IF \E ix \in DOMAIN self.lookups : self.lookups[ix].kind = "None"
           THEN "TypeError" ELSE "",
   out |-> [kind |-> "Comment", text |-> "# Unparsing failed"]]

\* x or [None]
OrListOfNone(entry) == IF Not(entry) THEN ListOfNone ELSE entry

\* l[0]
First(entry) ==
  IF entry.kind = "list"
  THEN [none |-> FALSE, routine |-> entry.groups[1]]
  ELSE [none |-> TRUE, routine |-> Routine(<<>>, NoFlags, <<>>)]

\* HasLookups with all() for the any() of line 108.
HasLookups_all(self) ==
  Len(self.lookups) > 0 /\ \A ix \in DOMAIN self.lookups : self.lookups[ix].kind /= "None"

HasLookups(self) ==
  Len(self.lookups) > 0 /\ \E ix \in DOMAIN self.lookups : self.lookups[ix].kind /= "None"

ChainingAsFeaAST(self) ==
  IF HasLookups(self)
  THEN LET routine_ == IF suborpos(self.lookups) = "sub"
                       THEN "ChainContextSubstStatement"
                       ELSE "ChainContextPosStatement"
       IN IF \E ix \in DOMAIN self.lookups :
               ~Not(self.lookups[ix]) /\ Length(self.lookups[ix]) > 1
          THEN complex(self)
          ELSE LET filled == [ix \in DOMAIN self.lookups |-> OrListOfNone(self.lookups[ix])]
               IN [self |-> [self EXCEPT !.lookups = filled],
                   warnings |-> 0, err |-> "",
                   out |-> [kind |-> routine_,
                            prefix |-> Refs(self.precontext),
                            glyphs |-> Refs(self.input),
                            suffix |-> Refs(self.postcontext),
                            lookups |-> [ix \in DOMAIN filled |-> First(filled[ix])]]]
  ELSE [self |-> self, warnings |-> 0, err |-> "",
        out |-> [kind |-> "IgnoreSubstStatement",
                 prefix |-> Refs(self.precontext),
                 glyphs |-> Refs(self.input),
                 suffix |-> Refs(self.postcontext)]]

\* ------------------------------------------------------ the state machine
\* The routines the front end hands over.
NameInputs == {None, "L"}

LanguageInputs ==
  { <<>>,
    << <<"DFLT", "dflt">> >>,
    << <<"latn", "*">> >>,
    << <<"latn", "*">>, <<"latn", "dflt">> >>,
    << <<"latn", "dflt">>, <<"arab", "URD">> >>,
    << <<"latn", "*">>, <<"latn", "dflt">>, <<"arab", "URD">> >> }

RECURSIVE SeqsUpTo(_, _)
SeqsUpTo(S, n) ==
  IF n = 0 THEN { <<>> }
  ELSE LET shorter == SeqsUpTo(S, n - 1) IN
       shorter \cup { Append(s, x) : s \in shorter, x \in S }

RoutineInputs ==
  { [name |-> n, rules |-> rs, flags |-> NoFlags, languages |-> ls, comments |-> <<>>] :
      n \in NameInputs, rs \in SeqsUpTo(RuleInputs, MaxRules), ls \in LanguageInputs }

Result(op, r, given_) ==
  [op |-> op, err |-> r.err, ret |-> r.ret, children |-> r.children,
   leaves |-> <<>>, given |-> given_]

New(r) == [op |-> "new", err |-> "", ret |-> "None", children |-> <<>>,
           leaves |-> <<>>, given |-> r]

Pass(op, r) ==
  /\ ret.op = "new"
  /\ routine' = r.self
  /\ ret' = Result(op, r, routine)
  /\ UNCHANGED chainVars

ArrangeByType       == Pass("arrange_by_type", arrange_by_type(routine))
ArrangeByLookupType == Pass("arrange_by_lookup_type", arrange_by_lookup_type(routine))
ArrangeByLanguage   == Pass("arrange_by_language", arrange_by_language(routine))
ArrangeByFlags      == Pass("arrange_by_flags", arrange_by_flags(routine))
Arrange             == Pass("arrange", arrange(routine))

AsFeaAST ==
  /\ ret.op = "new"
  /\ LET r == asFeaAST(routine)
         a == arrange(routine)
     IN /\ routine' = a.self
        /\ ret' = [op |-> "asFeaAST", err |-> r.err,
                   ret |-> IF r.err = "" THEN "block" ELSE "raise",
                   children |-> a.children, leaves |-> r.leaves, given |-> routine]
  /\ UNCHANGED chainVars

\* asFeaAST(a) for a child a of the split: the recursion of line 110.
Descend ==
  /\ ret.op \in {"arrange", "asFeaAST"}
  /\ \E i \in DOMAIN ret.children :
       /\ routine' = ret.children[i]
       /\ ret' = New(ret.children[i])
  /\ UNCHANGED chainVars

\* ---- the session of chaining rules
\* The routines a chaining rule's positions refer to.
NamedRoutine(name, rules) == [Routine(rules, NoFlags, <<>>) EXCEPT !.name = name]

LookupA == NamedRoutine("a", <<MkRule(Substitution, "single", FALSE, 0)>>)
LookupB == NamedRoutine("b", <<MkRule(Substitution, "multiple", FALSE, 0)>>)
LookupC == NamedRoutine("c", <<MkRule(Chaining, "", FALSE, 0)>>)
Unnamed == Routine(<<MkRule(Positioning, "single", FALSE, 0)>>, NoFlags, <<>>)

EntryInputs ==
  { NoneEntry,
    ListEntry(<<>>),
    ListEntry(<<LookupA>>),
    ListEntry(<<LookupC>>),
    ListEntry(<<Unnamed>>),
    ListEntry(<<LookupA, LookupB>>),
    ListEntry(<<LookupB, LookupA>>),
    ListEntry(<<LookupA, LookupC>>),
    ListEntry(<<Unnamed, Unnamed>>),
    ListEntry(<<LookupA, LookupB, LookupC>>) }

\* The pairs of names compatibleRules can be asked about.
OraclePairs ==
  { {e.groups[1].name, e.groups[2].name} :
      e \in { x \in EntryInputs : Len(x.groups) = 2 /\ x.groups[1].name /= None
                                   /\ x.groups[2].name /= None } }

\* Rules that differ in their lookups.
ChainRuleInputs ==
  { [input |-> [i \in 1..(IF lk = <<>> THEN 1 ELSE Len(lk)) |-> <<"a">>],
     precontext |-> << <<"b">> >>, postcontext |-> <<>>, lookups |-> lk] :
      lk \in SeqsUpTo(EntryInputs, MaxPositions) }

\* Rules that differ in their glyph classes.
ClassInputs ==
  { <<"a">>,
    <<"a", "b">>,
    <<"a", "b", "c", "d", "e", "f">>,
    <<"f", "e", "d", "c", "b", "a">>,
    <<"a", "a", "b", "c", "d", "e", "f">>,
    <<"b", "c", "d", "e", "f", "g">> }

ClassRuleInputs ==
  { [input |-> i, precontext |-> p, postcontext |-> q, lookups |-> <<>>] :
      i \in SeqsUpTo(ClassInputs, MaxContext) \ { <<>> },
      p \in SeqsUpTo(ClassInputs, MaxContext),
      q \in SeqsUpTo(ClassInputs, MaxContext) }

NoRule == [input |-> <<>>, precontext |-> <<>>, postcontext |-> <<>>, lookups |-> <<>>]

\* An exception ends the lowering: nothing in the sources catches one.
Aborted == \E i \in DOMAIN log : log[i].err /= ""

\* The next rule of the session.
Load(inputs) ==
  /\ loaded < MaxSessionRules
  /\ ~Aborted
  /\ loaded = 0 \/ log /= <<>>
  /\ \E r \in inputs :
       /\ crule' = r
       /\ handed' = r
  /\ log' = <<>>
  /\ loaded' = loaded + 1
  /\ UNCHANGED <<session, oracle, calls, renamed, routineVars>>

LoadChainRule == Load(ChainRuleInputs)
LoadClassRule == Load(ClassRuleInputs)

Asked(asked, pair) ==
  Cardinality({ i \in DOMAIN asked : {asked[i][1], asked[i][2]} = pair })

\* The state after r.feaPreamble(ff) returned (or raised) p.
Preambled(p) ==
  /\ crule' = p.self
  /\ session' = p.ff
  /\ log' = Append(log, [op |-> "feaPreamble", err |-> p.err, out |-> p.rv,
                         asked |-> p.asked, hits |-> p.hits, warnings |-> 0,
                         before |-> crule])
  /\ calls' = [pair \in DOMAIN calls |-> calls[pair] + Asked(p.asked, pair)]
  /\ renamed' = renamed \cup p.replaced

\* r.feaPreamble(ff)
FeaPreamble ==
  /\ loaded > 0
  /\ ~Aborted
  /\ Len(log) < MaxOps
  /\ Preambled(feaPreamble(crule, session, oracle))
  /\ UNCHANGED <<handed, oracle, loaded, routineVars>>

\* x.asFeaAST() of the chaining rule
ChainAsFeaAST ==
  /\ loaded > 0
  /\ ~Aborted
  /\ Len(log) < MaxOps
  /\ LET a == ChainingAsFeaAST(crule) IN
       /\ crule' = a.self
       /\ log' = Append(log, [op |-> "asFeaAST", err |-> a.err, out |-> <<a.out>>,
                              asked |-> <<>>, hits |-> <<>>, warnings |-> a.warnings,
                              before |-> crule])
  /\ UNCHANGED <<handed, session, oracle, calls, renamed, loaded, routineVars>>

IdleRoutine == Routine(<<>>, NoFlags, <<>>)

NoSession ==
  /\ crule = NoRule
  /\ handed = NoRule
  /\ session = NewFF
  /\ log = <<>>
  /\ calls = [pair \in OraclePairs |-> 0]
  /\ renamed = {}
  /\ loaded = 0

\* The lowering of one routine.
Init ==
  /\ routine \in RoutineInputs
  /\ ret = New(routine)
  /\ NoSession
  /\ oracle = [pair \in OraclePairs |-> FALSE]

Next ==
  \/ ArrangeByType
  \/ ArrangeByLookupType
  \/ ArrangeByLanguage
  \/ ArrangeByFlags
  \/ Arrange
  \/ AsFeaAST
  \/ Descend

Spec == Init /\ [][Next]_vars

\* A session lowering chaining rules that differ in their lookups.
InitChain ==
  /\ routine = IdleRoutine
  /\ ret = New(IdleRoutine)
  /\ NoSession
  /\ oracle \in [OraclePairs -> BOOLEAN]

NextChain ==
  \/ LoadChainRule
  \/ FeaPreamble
  \/ ChainAsFeaAST

SpecChain == InitChain /\ [][NextChain]_vars

\* A session lowering chaining rules that differ in their glyph classes.
InitClasses ==
  /\ routine = IdleRoutine
  /\ ret = New(IdleRoutine)
  /\ NoSession
  /\ oracle = [pair \in OraclePairs |-> FALSE]

NextClasses ==
  \/ LoadClassRule
  \/ FeaPreamble
  \/ ChainAsFeaAST

SpecClasses == InitClasses /\ [][NextClasses]_vars

\* A session lowering chaining rules whose routines have names with an
\* underscore in them.
LookupAB == NamedRoutine("a_b", <<MkRule(Substitution, "single", FALSE, 0)>>)
LookupD  == NamedRoutine("d", <<MkRule(Substitution, "multiple", FALSE, 0)>>)
LookupBD == NamedRoutine("b_d", <<MkRule(Substitution, "ligature", FALSE, 0)>>)

NameEntryInputs ==
  { NoneEntry,
    ListEntry(<<LookupA>>),
    ListEntry(<<LookupAB, LookupD>>),
    ListEntry(<<LookupA, LookupBD>>) }

NamePairs == { {"a_b", "d"}, {"a", "b_d"} }

NameRuleInputs ==
  { [input |-> [i \in 1..(IF lk = <<>> THEN 1 ELSE Len(lk)) |-> <<"a">>],
     precontext |-> << <<"b">> >>, postcontext |-> <<>>, lookups |-> lk] :
      lk \in SeqsUpTo(NameEntryInputs, MaxPositions) }

LoadNameRule == Load(NameRuleInputs)

InitNames ==
  /\ routine = IdleRoutine
  /\ ret = New(IdleRoutine)
  /\ crule = NoRule
  /\ handed = NoRule
  /\ session = NewFF
  /\ log = <<>>
  /\ oracle \in [NamePairs -> BOOLEAN]
  /\ calls = [pair \in NamePairs |-> 0]
  /\ renamed = {}
  /\ loaded = 0

NextNames ==
  \/ LoadNameRule
  \/ FeaPreamble
  \/ ChainAsFeaAST

SpecNames == InitNames /\ [][NextNames]_vars

\* ------------------------------------------------- properties: Routine.py
Range(seq) == { seq[i] : i \in DOMAIN seq }
Count(seq, x) == Cardinality({ i \in DOMAIN seq : seq[i] = x })

TypesOf(rules) == { rules[i].type : i \in DOMAIN rules }
KeysOf(rules)  == { lookup_type(rules[i]).key : i \in DOMAIN rules }
FlagsOf(rules) == { rules[i].flags : i \in DOMAIN rules }
ExpandedPairs(langs) ==
  { IF langs[i][2] = "*" THEN <<langs[i][1], "dflt">> ELSE langs[i] : i \in DOMAIN langs }

\* The one mix of subtype keys a lookup may hold: single with multiple
\* substitution.
SingleWithMultiple(rules) ==
  /\ KeysOf(rules) = {1, 2}
  /\ TypesOf(rules) = {Substitution}

Homogeneous(g) ==
  /\ Cardinality(TypesOf(g.rules)) = 1
  /\ Cardinality(KeysOf(g.rules)) = 1 \/ SingleWithMultiple(g.rules)
  /\ Cardinality(FlagsOf(g.rules)) = 1
  /\ Cardinality(ExpandedPairs(g.languages)) <= 1

\* C1: every routine that asFeaAST serialises directly, at any depth below a
\* non-empty routine, holds rules of one type, of one subtype key (or of
\* single and multiple substitution), of one flags value, and has at most
\* one (script, language) scope.
C1_LeavesHomogeneous ==
  (ret.op = "asFeaAST" /\ ret.given.rules /= <<>>)
    => \A i \in DOMAIN ret.leaves : Homogeneous(ret.leaves[i])

\* C2: arrange_by_type on a routine of two or more rule types returns one
\* child per type, each of one type, the children's rules being the
\* routine's rules as a multiset, and each child of a named routine named
\* name_type.
C2_TypePassSplits ==
  (ret.op = "arrange_by_type" /\ Cardinality(TypesOf(ret.given.rules)) >= 2)
    => /\ ret.ret = "list"
       /\ Len(ret.children) = Cardinality(TypesOf(ret.given.rules))
       /\ \A i \in DOMAIN ret.children :
            /\ Cardinality(TypesOf(ret.children[i].rules)) = 1
            /\ Truthy(ret.given.name) =>
                 ret.children[i].name
                   = ret.given.name \o "_" \o ret.children[i].rules[1].type
       /\ \A r \in Range(ret.given.rules) :
            Count(ret.given.rules, r)
              = Cardinality({ <<i, j>> \in (DOMAIN ret.children) \X (1..Len(ret.given.rules)) :
                                /\ j \in DOMAIN ret.children[i].rules
                                /\ ret.children[i].rules[j] = r })

\* C3: arrange_by_lookup_type does not split a routine whose subtype keys
\* are exactly 1 and 2, in whatever order its rules come.
C3_SingleMultipleNoSplit ==
  (ret.op = "arrange_by_lookup_type" /\ KeysOf(ret.given.rules) = {1, 2})
    => ret.ret = "None"

\* C4: arrange_by_language on a routine of two or more distinct expanded
\* (script, language) pairs returns one child per distinct pair, each with
\* that pair as its languages and the routine's rule sequence as its rules.
C4_LanguagePassDuplicates ==
  (ret.op = "arrange_by_language"
     /\ Cardinality(ExpandedPairs(ret.given.languages)) >= 2)
    => /\ ret.ret = "list"
       /\ Len(ret.children) = Cardinality(ExpandedPairs(ret.given.languages))
       /\ { ret.children[i].languages : i \in DOMAIN ret.children }
            = { <<p>> : p \in ExpandedPairs(ret.given.languages) }
       /\ \A i \in DOMAIN ret.children : ret.children[i].rules = ret.given.rules

\* The routines the second testable property is about.
OneSubtypeFlagsScope(g) ==
  /\ g.rules /= <<>>
  /\ Cardinality(KeysOf(g.rules)) = 1
  /\ Cardinality(FlagsOf(g.rules)) = 1
  /\ Cardinality(ExpandedPairs(g.languages)) <= 1

NoSplitFlagsSet ==
  /\ ret.ret = "None"
  /\ routine.flags = ret.given.rules[1].flags
  /\ routine.rules = ret.given.rules
  /\ routine.name = ret.given.name
  /\ routine.languages = ret.given.languages

LoweringDone ==
  \/ Len(log) >= 2 /\ log[1].op = "feaPreamble" /\ log[2].op = "asFeaAST"
  \/ Len(log) = 1 /\ log[1].op = "feaPreamble" /\ log[1].err /= ""

LoweringRaised == \E i \in DOMAIN log : i <= 2 /\ log[i].err /= ""

\* The statement asFeaAST returned, when lowering raised nothing.
ChainStatement == log[2].out[1]

\* The glyph classes of the three lists of a rule, by list and place.
ClassesOf(r) ==
  { <<"input", ix, r.input[ix]>> : ix \in DOMAIN r.input }
    \cup { <<"precontext", ix, r.precontext[ix]>> : ix \in DOMAIN r.precontext }
    \cup { <<"postcontext", ix, r.postcontext[ix]>> : ix \in DOMAIN r.postcontext }

\* C6: after the preamble every glyph class of more than 5 glyphs of the
\* rule's input, precontext and postcontext is a reference to a generated
\* class, and any two oversized classes of the session that are equal as sets
\* (whatever the order or the repetitions) got the same class name.
C6_SameSetSameName ==
  /\ (log /= <<>> /\ log[1].op = "feaPreamble")
       => \A c \in ClassesOf(handed) :
            Len(c[3]) > InlineMax
              => \E p \in renamed :
                   /\ p[1] = c[3]
                   /\ <<c[1], c[2], <<"@" \o p[2]>> >> \in ClassesOf(crule)
  /\ \A p, q \in renamed : Range(p[1]) = Range(q[1]) => p[2] = q[2]

\* C7 as stated: compatibleRules is invoked at most once per unordered pair
\* of routine names in a session, whatever it answered.
C7_AsStated == \A pair \in OraclePairs : calls[pair] <= 1

\* C7 amended: compatibleRules is invoked at most once per unordered pair of
\* routine names it judges compatible; every later position holding the
\* pair, in either order, is resolved from the cache.
C7_CompatibleAskedOnce ==
  \A pair \in OraclePairs : oracle[pair] => calls[pair] <= 1

\* A preamble met (b, a) after (a, b) was merged, and took it from the cache.
C7_Witness ==
  /\ oracle[{"a", "b"}]
  /\ calls[{"a", "b"}] = 1
  /\ \E i \in DOMAIN log :
       /\ log[i].op = "feaPreamble"
       /\ log[i].hits = <<"a_b">>
       /\ \E ix \in DOMAIN log[i].before.lookups :
            log[i].before.lookups[ix] = ListEntry(<<LookupB, LookupA>>)

\* C8: a rule whose lookups are empty, or hold at every position None or an
\* empty list, lowers to an IgnoreSubstStatement of its precontext, input and
\* postcontext, and compatibleRules is not invoked for it.
C8_NoGroupsIsIgnore ==
  (LoweringDone /\ \A ix \in DOMAIN handed.lookups : Not(handed.lookups[ix]))
    => /\ ~LoweringRaised
       /\ log[1].asked = <<>>
       /\ log[1].out = <<>>
       /\ ChainStatement = [kind |-> "IgnoreSubstStatement",
                            prefix |-> Refs(handed.precontext),
                            glyphs |-> Refs(handed.input),
                            suffix |-> Refs(handed.postcontext)]

\* The position of a rule that holds two named routines judged compatible,
\* no other position holding more than one routine.
CompatiblePairAt(ix) ==
  /\ ix \in DOMAIN handed.lookups
  /\ NamedPair(handed.lookups[ix])
  /\ oracle[{handed.lookups[ix].groups[1].name, handed.lookups[ix].groups[2].name}]
  /\ \A jx \in DOMAIN handed.lookups :
       jx /= ix => (Not(handed.lookups[jx]) \/ Length(handed.lookups[jx]) <= 1)

\* C9: a rule with two named routines at one position, judged compatible,
\* and at most one routine elsewhere lowers to exactly two statements: the
\* block of a routine named name1_name2 whose rules are the first routine's
\* then the second's, then a chain statement whose lookup at that position
\* is that routine.
C9_MergedThenChain ==
  \A ix \in 1..MaxPositions :
    (LoweringDone /\ CompatiblePairAt(ix))
      => /\ ~LoweringRaised
         /\ Len(log[1].out) = 1
         /\ log[1].out[1].kind = "LookupBlock"
         /\ log[1].out[1].name = handed.lookups[ix].groups[1].name \o "_"
                                   \o handed.lookups[ix].groups[2].name
         /\ log[1].out[1].routine.rules = handed.lookups[ix].groups[1].rules
                                            \o handed.lookups[ix].groups[2].rules
         /\ ChainStatement.kind \in {"ChainContextSubstStatement",
                                     "ChainContextPosStatement"}
         /\ ~ChainStatement.lookups[ix].none
         /\ ChainStatement.lookups[ix].routine.name = log[1].out[1].name
         /\ ChainStatement.lookups[ix].routine.rules = log[1].out[1].routine.rules

\* A position _complex is meant for: more than two routines, or two named
\* routines judged overlapping.
Inexpressible(entry) ==
  \/ ~Not(entry) /\ Length(entry) > 2
  \/ NamedPair(entry) /\ ~oracle[{entry.groups[1].name, entry.groups[2].name}]

\* Every routine the rule refers to has a name.
AllNamed(lookups) ==
  \A ix \in DOMAIN lookups :
    \A g \in DOMAIN lookups[ix].groups : lookups[ix].groups[g].name /= None

\* C10: a rule of named routines with a position of more than two routines,
\* or of two judged overlapping, lowers to the one Comment placeholder with one warning and
\* no merged routine's statement, and raises nothing, so that the rules after
\* it are lowered.
C10_PlaceholderAndWarning ==
  (LoweringDone /\ AllNamed(handed.lookups)
     /\ \E ix \in DOMAIN handed.lookups : Inexpressible(handed.lookups[ix]))
    => /\ ~LoweringRaised
       /\ log[1].out = <<>>
       /\ ChainStatement.kind = "Comment"
       /\ log[2].warnings = 1

\* C11: lowering a routine either returns its block or raises the
\* ValueError of lookup_type; it raises nothing else, also for a named
\* routine of several rule types.
C11_BlockOrValueError ==
  ret.op = "asFeaAST" => ret.err \in {"", "ValueError"}

\* C16: every leaf that asFeaAST serialises below a routine with languages,
\* none of them (DFLT, dflt), starts with the ScriptStatement of a script of
\* the routine, also when the routine was split by subtype or by flags.
C16_LeavesKeepScript ==
  (ret.op = "asFeaAST" /\ ret.err = "" /\ ret.given.languages /= <<>>
     /\ <<"DFLT", "dflt">> \notin Range(ret.given.languages))
    => \A i \in DOMAIN ret.leaves :
         /\ LanguageStatements(ret.leaves[i]) /= <<>>
         /\ LanguageStatements(ret.leaves[i])[1].kind = "ScriptStatement"
         /\ \E p \in Range(ret.given.languages) :
              LanguageStatements(ret.leaves[i])[1].arg = p[1]

ChainKinds == {"ChainContextSubstStatement", "ChainContextPosStatement"}

\* A rule that refers to a routine, and to one at most at each position.
OneAtMostEach(lookups) ==
  /\ \E ix \in DOMAIN lookups : ~Not(lookups[ix])
  /\ \A ix \in DOMAIN lookups : Not(lookups[ix]) \/ Length(lookups[ix]) = 1

\* C12: a rule with a routine at some position and more than one at none
\* lowers to one chain statement and no other statement; its lookups are as
\* many as the rule's positions, each the routine of its position, or None
\* where the position has none.
C12_OneChainStatement ==
  (LoweringDone /\ OneAtMostEach(handed.lookups))
    => /\ ~LoweringRaised
       /\ log[1].out = <<>>
       /\ ChainStatement.kind \in ChainKinds
       /\ Len(ChainStatement.lookups) = Len(handed.lookups)
       /\ \A ix \in DOMAIN handed.lookups :
            IF Not(handed.lookups[ix])
            THEN ChainStatement.lookups[ix].none
            ELSE /\ ~ChainStatement.lookups[ix].none
                 /\ ChainStatement.lookups[ix].routine = handed.lookups[ix].groups[1]

\* A rule with no routine at its first position and one at its second was
\* lowered.
C12_Witness ==
  /\ LoweringDone
  /\ ~LoweringRaised
  /\ handed.lookups = <<NoneEntry, ListEntry(<<LookupA>>)>>
  /\ ChainStatement.kind = "ChainContextSubstStatement"
  /\ ChainStatement.lookups[1].none
  /\ ChainStatement.lookups[2].routine = LookupA

\* The first rule that is no chaining rule, depth first and in order, a
\* chaining rule that yields nothing being passed over.
RECURSIVE FirstConcrete(_)
FirstConcrete(rules) ==
  IF rules = <<>> THEN None
  ELSE LET r == Head(rules) IN
       CASE r.type = Substitution -> "sub"
         [] r.type = Positioning  -> "pos"
         [] r.type = Attachment   -> "pos"
         [] r.type = Chaining     ->
              IF FirstConcrete(RulesInOrder(r.lookups)) /= None
              THEN FirstConcrete(RulesInOrder(r.lookups))
              ELSE FirstConcrete(Tail(rules))
         [] OTHER                 -> FirstConcrete(Tail(rules))

\* C13: the chain statement is a ChainContextSubstStatement if and only if
\* the first concrete rule of the routines referred to, depth first and in
\* order (a nested chaining rule that yields nothing being passed over), is a
\* Substitution, and a ChainContextPosStatement if it is a Positioning or an
\* Attachment.
C13_KindOfFirstConcrete ==
  (LoweringDone /\ ~LoweringRaised /\ ChainStatement.kind \in ChainKinds
     /\ FirstConcrete(RulesInOrder(handed.lookups)) /= None)
    => (ChainStatement.kind = "ChainContextSubstStatement"
          <=> FirstConcrete(RulesInOrder(handed.lookups)) = "sub")

\* C15: two calls of asFeaAST in a row on one rule return the same
\* statement.
C15_AsFeaASTRepeatable ==
  \A i \in DOMAIN log :
    (i + 1 \in DOMAIN log /\ log[i].op = "asFeaAST" /\ log[i + 1].op = "asFeaAST"
       /\ log[i].err = "" /\ log[i + 1].err = "")
      => log[i + 1].out = log[i].out

\* C14: whenever the preamble has replaced the two named routines of a
\* position by one routine, merged just now or taken from the cache, that
\* routine's rules are the rules of the two, and its name is made of their
\* two names.
C14_CachedIsOfThePair ==
  (log /= <<>> /\ log[Len(log)].op = "feaPreamble" /\ log[Len(log)].err = "")
    => \A ix \in DOMAIN log[Len(log)].before.lookups :
         LET was == log[Len(log)].before.lookups[ix]
             now == crule.lookups[ix]
         IN (NamedPair(was) /\ now /= was)
              => /\ Len(now.groups) = 1
                 /\ now.groups[1].rules \in { was.groups[1].rules \o was.groups[2].rules,
                                              was.groups[2].rules \o was.groups[1].rules }

====
